---- MODULE Spec2Model ----
(***************************************************************************)
(* Model of src/app.py, the "Big Tech Stock Price Forecaster" script.      *)
(*                                                                         *)
(* Two specifications share the module:                                    *)
(*   SpecNorm  the cleaning steps of fetch_stock_data (lines 59-79) as a   *)
(*             pure function of the downloaded frame, applied once and     *)
(*             then applied again to its own output;                       *)
(*   Spec      the script run by run: widgets, the st.cache_data cache,    *)
(*             the try/except around fetch_stock_data, Prophet's fit and   *)
(*             predict, the future-only table.                             *)
(*                                                                         *)
(* Cells of a frame are records [k, v]: k is the kind of the value and v   *)
(* its number (0 when the kind has none).  Dates are day numbers.          *)
(***************************************************************************)
EXTENDS Integers, Sequences, FiniteSets

VARIABLES
    \* ---- the script (Spec)
    pc,          \* where the current run of the script stands
    runs,        \* how many runs of the script have started
    ticker,      \* line 39
    years,       \* line 41
    periods,     \* line 42
    cache,       \* st.cache_data's store for fetch_stock_data, by argument
    data,        \* line 84: [src, rows], src the symbol the rows were downloaded for
    err,         \* the exception the run ended with, "none" if none
    downloads,   \* calls of yf.download made by the current run
    shown,       \* the elements the current run has rendered
    fitted,      \* m.fit(data) returned
    forecast,    \* line 103: the ds column of the forecast
    table,       \* line 121: the ds column of the displayed future-only table
    \* ---- the cleaning steps alone (SpecNorm)
    npc,         \* "raw", "clean", "again"
    raw,         \* what yf.download returned: [pairs, multi], see Frame
    out,         \* fetch_stock_data's outcome on raw
    again        \* the outcome of the same steps on out's own rows

vars == <<pc, runs, ticker, years, periods, cache, data, err, downloads, shown,
          fitted, forecast, table, npc, raw, out, again>>

appVars == <<pc, runs, ticker, years, periods, cache, data, err, downloads,
             shown, fitted, forecast, table>>

normVars == <<npc, raw, out, again>>

(***************************************************************************)
(* Bounds of the model.                                                    *)
(***************************************************************************)
MaxRows == 3       \* rows of a downloaded frame (SpecNorm)
MaxDay == 2        \* distinct trading days (SpecNorm)
MaxRuns == 2       \* runs of the script in one process (Spec)

(***************************************************************************)
(* Program constants.                                                      *)
(***************************************************************************)
SliderMin == 1
SliderMax == 5
SliderDefault == 2
DaysPerYear == 365
HeadRows == 30

\* lines 28-36
TICKERS ==
    [l \in {"Apple (AAPL)", "Google (GOOG)", "Microsoft (MSFT)", "Amazon (AMZN)",
            "Meta (META)", "NVIDIA (NVDA)", "Tesla (TSLA)"} |->
        CASE l = "Apple (AAPL)" -> "AAPL"
          [] l = "Google (GOOG)" -> "GOOG"
          [] l = "Microsoft (MSFT)" -> "MSFT"
          [] l = "Amazon (AMZN)" -> "AMZN"
          [] l = "Meta (META)" -> "META"
          [] l = "NVIDIA (NVDA)" -> "NVDA"
          [] l = "Tesla (TSLA)" -> "TSLA"]

Labels == DOMAIN TICKERS

Symbols == {TICKERS[l] : l \in Labels}

\* st.sidebar.selectbox shows the first option until the user picks another
DefaultLabel == "Apple (AAPL)"

(***************************************************************************)
(* Cells.                                                                  *)
(***************************************************************************)
Cell(k, v) == [k |-> k, v |-> v]

Ts(d) == Cell("ts", d)        \* a datetime
Num(x) == Cell("num", x)      \* a finite float
NaN == Cell("nan", 0)
Inf == Cell("inf", 0)
NaT == Cell("nat", 0)
Text == Cell("text", 0)       \* a string that is neither a date nor a number

\* pd.to_datetime(..., errors="coerce"), one cell
ToDatetime(c) == IF c.k = "ts" THEN c ELSE NaT

\* float(c) succeeds
Convertible(c) == c.k \in {"num", "nan", "inf"}

\* astype(float), one cell that converts
AsFloat(c) == IF c.k = "num" THEN Num(c.v) ELSE IF c.k = "inf" THEN Inf ELSE NaN

\* pandas' isna, one cell
IsNa(c) == c.k \in {"nan", "nat"}

(***************************************************************************)
(* Frames.  A frame is [multi, columns, index, rows]: multi says whether   *)
(* the column labels are a MultiIndex, a label is the tuple of its levels  *)
(* (one level when the labels are simple), index holds the row labels      *)
(* until reset_index moves them into a column.                             *)
(***************************************************************************)
Range(s) == {s[i] : i \in DOMAIN s}

\* the cell every column other than Close holds: the model gives them one value
OtherCell == Num(1)

\* line 57: the shape of what yf.download returns for one symbol, from the
\* (Date, Close) pairs of its rows; composite labels carry the symbol
Frame(pairs, multi, sym) ==
    [multi |-> multi,
     columns |-> IF multi THEN << <<"Open", sym>>, <<"Close", sym>> >>
                          ELSE << <<"Open">>, <<"Close">> >>,
     index |-> [i \in DOMAIN pairs |-> pairs[i].Date],
     rows |-> [i \in DOMAIN pairs |-> <<OtherCell, pairs[i].Close>>]]

\* line 60: df.reset_index(): the index named Date becomes the first column
ResetIndex(df) ==
    [multi |-> df.multi,
     columns |-> <<IF df.multi THEN <<"Date", "">> ELSE <<"Date">> >> \o df.columns,
     index |-> [i \in DOMAIN df.index |-> i],
     rows |-> [i \in DOMAIN df.rows |-> <<df.index[i]>> \o df.rows[i]]]

\* a plausible slip: the second level (the symbol) instead of the first
GetLevelValuesSymbol(columns) == [i \in DOMAIN columns |-> <<columns[i][2]>>]

\* line 64: df.columns.get_level_values(0)
GetLevelValues(columns) == [i \in DOMAIN columns |-> <<columns[i][1]>>]

\* lines 63-64
FlattenColumns(df) ==
    IF df.multi
    THEN [df EXCEPT !.multi = FALSE, !.columns = GetLevelValues(df.columns)]
    ELSE df

\* the positions of the columns labelled name
ColumnsNamed(df, name) == {i \in DOMAIN df.columns : df.columns[i] = <<name>>}

\* line 67 raises KeyError unless both labels exist
HasDateAndClose(df) == ColumnsNamed(df, "Date") # {} /\ ColumnsNamed(df, "Close") # {}

\* line 67: df[["Date", "Close"]].copy()
Project(df) ==
    LET d == CHOOSE i \in ColumnsNamed(df, "Date") : TRUE
        c == CHOOSE i \in ColumnsNamed(df, "Close") : TRUE
    IN  [i \in DOMAIN df.rows |-> [Date |-> df.rows[i][d], Close |-> df.rows[i][c]]]

\* line 71 raises ValueError when a Close cell does not convert
AllConvertible(p) == \A i \in DOMAIN p : Convertible(p[i].Close)

\* lines 70-71 and the projection of line 74
BuildColumns(p) ==
    [i \in DOMAIN p |-> [ds |-> ToDatetime(p[i].Date), y |-> AsFloat(p[i].Close)]]

\* a plausible slip: dropna(subset=["y"])
DropNaValueOnly(s) == SelectSeq(s, LAMBDA r : ~IsNa(r.y))

\* line 74: .dropna()
DropNa(s) == SelectSeq(s, LAMBDA r : ~IsNa(r.ds) /\ ~IsNa(r.y))

\* s without its i-th element
Remove(s, i) == [j \in 1..(Len(s) - 1) |-> IF j < i THEN s[j] ELSE s[j + 1]]

\* line 77: sort_values("ds") with pandas' default kind="quicksort", which is not
\* stable: every arrangement in nondecreasing ds is a possible result
RECURSIVE SortValues(_)
SortValues(s) ==
    IF s = <<>> THEN {<<>>}
    ELSE UNION {{<<s[i]>> \o t : t \in SortValues(Remove(s, i))} :
                i \in {j \in DOMAIN s : \A k \in DOMAIN s : s[j].ds.v <= s[k].ds.v}}

Raised(e) == [err |-> e, rows |-> <<>>]

Returned(s) == [err |-> "none", rows |-> s]

\* lines 59-79: every outcome the cleaning steps can have on the frame df
CleanOutcomes(df) ==
    LET flat == FlattenColumns(ResetIndex(df))
    IN  IF ~HasDateAndClose(flat) THEN {Raised("KeyError")}
        ELSE IF ~AllConvertible(Project(flat)) THEN {Raised("ValueError")}
        ELSE {Returned(s) : s \in SortValues(DropNa(BuildColumns(Project(flat))))}

\* a returned series read as a downloaded frame again
AsFrame(s, multi, sym) ==
    Frame([i \in DOMAIN s |-> [Date |-> s[i].ds, Close |-> s[i].y]], multi, sym)

(***************************************************************************)
(* SpecNorm: the cleaning steps on every frame within the bounds.          *)
(***************************************************************************)
DateCells == {Ts(d) : d \in 1..MaxDay} \cup {Text}

CloseCells == {Num(100), Num(-5), NaN, Inf, Text}

Pairs == [Date : DateCells, Close : CloseCells]

PairSeqs(n) == UNION {[1..m -> Pairs] : m \in 0..n}

NormSym == "AAPL"

\* the frame of the rows and label style drawn for this behaviour
Download(r) == Frame(r.pairs, r.multi, NormSym)

Pending == [err |-> "pending", rows |-> <<>>]

\* no entry in the cache, no value assigned yet
Miss == [src |-> "", rows |-> <<>>]

\* the state of the script before its first fetch: the widgets' defaults
AppIdle ==
    /\ pc = "fetch"
    /\ runs = 1
    /\ ticker = TICKERS[DefaultLabel]
    /\ years = SliderDefault
    /\ periods = SliderDefault * DaysPerYear
    /\ cache = [s \in Symbols |-> Miss]
    /\ data = Miss
    /\ err = "none"
    /\ downloads = 0
    /\ shown = {}
    /\ fitted = FALSE
    /\ forecast = <<>>
    /\ table = <<>>

InitNorm ==
    /\ AppIdle
    /\ npc = "raw"
    /\ \E p \in PairSeqs(MaxRows), multi \in BOOLEAN : raw = [pairs |-> p, multi |-> multi]
    /\ out = Pending
    /\ again = Pending

\* fetch_stock_data's steps after the download, on raw
NormApply ==
    /\ npc = "raw"
    /\ \E o \in CleanOutcomes(Download(raw)) : out' = o
    /\ npc' = "clean"
    /\ UNCHANGED <<raw, again>>
    /\ UNCHANGED appVars

\* the same steps on the series they returned
NormAgain ==
    /\ npc = "clean"
    /\ out.err = "none"
    /\ \E o \in CleanOutcomes(AsFrame(out.rows, raw.multi, NormSym)) : again' = o
    /\ npc' = "again"
    /\ UNCHANGED <<raw, out>>
    /\ UNCHANGED appVars

NextNorm == NormApply \/ NormAgain

SpecNorm == InitNorm /\ [][NextNorm]_vars

(***************************************************************************)
(* Spec: the script, one action per step of a run.  Streamlit runs the     *)
(* script top to bottom once per user interaction; st.cache_data keeps     *)
(* fetch_stock_data's returned values for the life of the process.         *)
(***************************************************************************)
P(d, c) == [Date |-> d, Close |-> c]

\* line 57: what yf.download can deliver in this specification: representative
\* histories (the full input space of the cleaning steps is SpecNorm's)
SampleDownloads ==
    { <<>>,
      <<P(Ts(1), NaN)>>,
      <<P(Ts(1), Num(100))>>,
      <<P(Ts(1), Num(100)), P(Ts(2), NaN)>>,
      <<P(Ts(1), Num(100)), P(Ts(2), Text)>>,
      <<P(Ts(2), Num(102)), P(Ts(1), Num(100))>>,
      <<P(Ts(1), Num(100)), P(Ts(2), Inf)>> }

\* line 57: yf.download raises, or returns a frame
DownloadResults ==
    {[ok |-> FALSE, pairs |-> <<>>]} \cup {[ok |-> TRUE, pairs |-> p] : p \in SampleDownloads}

\* a plausible slip: one entry whatever the argument
CacheKeyShared(ticker_symbol) == "AAPL"

\* lines 50-51: st.cache_data keys an entry by the function's arguments
CacheKey(ticker_symbol) == ticker_symbol

\* line 42
Periods(y) == y * DaysPerYear

\* a plausible slip: the error is shown and the script goes on
OnFetchErrorNoStop == "chart"

\* lines 86-87: st.error(...) then st.stop() end the run
OnFetchError == "stopped"

Max(S) == CHOOSE x \in S : \A y \in S : y <= x

Min(S) == CHOOSE x \in S : \A y \in S : x <= y

RECURSIVE SortedSeq(_)
SortedSeq(S) == IF S = {} THEN <<>> ELSE <<Min(S)>> \o SortedSeq(S \ {Min(S)})

\* line 102: Prophet's make_future_dataframe(periods): the distinct history dates in
\* order, then one date a day for `periods` days after the last of them
MakeFutureDataframe(rows, n) ==
    LET hist == {rows[i].ds.v : i \in DOMAIN rows}
    IN  SortedSeq(hist) \o [i \in 1..n |-> Max(hist) + i]

\* a plausible slip: >= for >
FutureOnlyInclusive(fc, last_date) == SelectSeq(fc, LAMBDA d : d >= last_date)

\* line 116: forecast[forecast["ds"] > last_date]
FutureOnly(fc, last_date) == SelectSeq(fc, LAMBDA d : d > last_date)

\* line 121: .head(30)
HeadN(s, n) == SubSeq(s, 1, IF Len(s) < n THEN Len(s) ELSE n)

\* line 100: Prophet's fit raises ValueError on fewer than 2 rows and on an
\* infinite y
FitRaises(rows) == Len(rows) < 2 \/ \E i \in DOMAIN rows : rows[i].y.k = "inf"

Init ==
    /\ AppIdle
    /\ npc = "raw"
    /\ raw = [pairs |-> <<>>, multi |-> TRUE]
    /\ out = Pending
    /\ again = Pending

\* lines 38-44: a user interaction reruns the script with the widgets' values
Rerun ==
    /\ runs < MaxRuns
    /\ \E l \in Labels, y \in SliderMin..SliderMax :
        /\ ticker' = TICKERS[l]
        /\ years' = y
        /\ periods' = Periods(y)
    /\ runs' = runs + 1
    /\ pc' = "fetch"
    /\ data' = Miss
    /\ err' = "none"
    /\ downloads' = 0
    /\ shown' = {}
    /\ fitted' = FALSE
    /\ forecast' = <<>>
    /\ table' = <<>>
    /\ UNCHANGED cache
    /\ UNCHANGED normVars

\* lines 85-87: except Exception as e
FetchFails(e) ==
    /\ err' = e
    /\ shown' = shown \cup {"error"}
    /\ pc' = OnFetchError
    /\ downloads' = downloads + 1
    /\ UNCHANGED <<cache, data>>

\* lines 82-87 with lines 50-79: fetch_stock_data(ticker) behind st.cache_data
Fetch ==
    /\ pc = "fetch"
    /\ IF cache[CacheKey(ticker)] # Miss
       THEN /\ data' = cache[CacheKey(ticker)]
            /\ pc' = "chart"
            /\ UNCHANGED <<cache, err, downloads, shown>>
       ELSE \E d \in DownloadResults, multi \in BOOLEAN :
              IF ~d.ok
              THEN FetchFails("DownloadError")
              ELSE \E o \in CleanOutcomes(Frame(d.pairs, multi, ticker)) :
                     IF o.err # "none"
                     THEN FetchFails(o.err)
                     ELSE /\ data' = [src |-> ticker, rows |-> o.rows]
                          /\ cache' = [cache EXCEPT ![CacheKey(ticker)] =
                                          [src |-> ticker, rows |-> o.rows]]
                          /\ pc' = "chart"
                          /\ downloads' = downloads + 1
                          /\ UNCHANGED <<err, shown>>
    /\ UNCHANGED <<runs, ticker, years, periods, fitted, forecast, table>>
    /\ UNCHANGED normVars

\* lines 92-93
Chart ==
    /\ pc = "chart"
    /\ shown' = shown \cup {"history"}
    /\ pc' = "fit"
    /\ UNCHANGED <<runs, ticker, years, periods, cache, data, err, downloads,
                   fitted, forecast, table>>
    /\ UNCHANGED normVars

\* lines 98-100: an exception of m.fit is caught by nothing and ends the run
Fit ==
    /\ pc = "fit"
    /\ IF FitRaises(data.rows)
       THEN /\ pc' = "crashed"
            /\ err' = "FitError"
            /\ UNCHANGED fitted
       ELSE /\ pc' = "predict"
            /\ fitted' = TRUE
            /\ UNCHANGED err
    /\ UNCHANGED <<runs, ticker, years, periods, cache, data, downloads, shown,
                   forecast, table>>
    /\ UNCHANGED normVars

\* lines 102-103
Predict ==
    /\ pc = "predict"
    /\ forecast' = MakeFutureDataframe(data.rows, periods)
    /\ pc' = "plot"
    /\ UNCHANGED <<runs, ticker, years, periods, cache, data, err, downloads,
                   shown, fitted, table>>
    /\ UNCHANGED normVars

\* lines 108-110
PlotForecast ==
    /\ pc = "plot"
    /\ shown' = shown \cup {"forecast"}
    /\ pc' = "table"
    /\ UNCHANGED <<runs, ticker, years, periods, cache, data, err, downloads,
                   fitted, forecast, table>>
    /\ UNCHANGED normVars

\* lines 115-121
Table ==
    /\ pc = "table"
    /\ LET last_date == Max({data.rows[i].ds.v : i \in DOMAIN data.rows})
       IN  table' = HeadN(FutureOnly(forecast, last_date), HeadRows)
    /\ shown' = shown \cup {"table"}
    /\ pc' = "components"
    /\ UNCHANGED <<runs, ticker, years, periods, cache, data, err, downloads,
                   fitted, forecast>>
    /\ UNCHANGED normVars

\* lines 126-128
Components ==
    /\ pc = "components"
    /\ shown' = shown \cup {"components"}
    /\ pc' = "done"
    /\ UNCHANGED <<runs, ticker, years, periods, cache, data, err, downloads,
                   fitted, forecast, table>>
    /\ UNCHANGED normVars

\* the steps a run takes by itself
ScriptStep ==
    Fetch \/ Chart \/ Fit \/ Predict \/ PlotForecast \/ Table \/ Components

Next ==
    \/ Rerun
    \/ Fetch
    \/ Chart
    \/ Fit
    \/ Predict
    \/ PlotForecast
    \/ Table
    \/ Components

Spec == Init /\ [][Next]_vars

(***************************************************************************)
(* The claims.  Their helper definitions are written from the claims'      *)
(* words, not from the operators above.                                    *)
(***************************************************************************)
\* fetch_stock_data's steps have just been applied to raw
Cleaned == npc = "clean"

\* a raw row with a valid timestamp and a finite non-negative value
ValidPair(p) == p.Date.k = "ts" /\ p.Close.k = "num" /\ p.Close.v >= 0

Occurrences(s, x) == Cardinality({i \in DOMAIN s : s[i] = x})

\* the same rows, whatever their order
SameRows(s, t) == \A x \in Range(s) \cup Range(t) : Occurrences(s, x) = Occurrences(t, x)

AsPoint(p) == [ds |-> p.Date, y |-> p.Close]

StrictlyIncreasing(s) == \A i \in 1..(Len(s) - 1) : s[i].ds.v < s[i + 1].ds.v

\* C1: whenever the raw input holds a row with a valid timestamp and a finite
\* non-negative value, the returned series is non-empty and its timestamps are
\* strictly increasing, none appearing twice (stated of the calls that return: a
\* call that raises is C3's matter).
C1_StrictlySortedNoDuplicates ==
    (Cleaned /\ out.err = "none" /\ \E i \in DOMAIN raw.pairs : ValidPair(raw.pairs[i]))
        => (out.rows # <<>> /\ StrictlyIncreasing(out.rows))

\* C2: when nothing survives filtering the normalizer signals an error and the
\* run halts; no run goes on past the fetch with an empty series.
C2_EmptySeriesNeverReturned ==
    pc \in {"chart", "fit", "predict", "plot", "table", "components", "done", "crashed"}
        => data.rows # <<>>

\* C3: the rows whose Close is NaN or non-numeric, and only those, are absent from
\* the output, no error is surfaced, and every other row (with a timestamp that
\* parses) is in the output unchanged.
C3_InvalidValuesDropped ==
    Cleaned =>
        /\ out.err = "none"
        /\ SameRows(out.rows,
                    SelectSeq([i \in DOMAIN raw.pairs |-> AsPoint(raw.pairs[i])],
                              LAMBDA r : r.ds.k = "ts" /\ r.y.k \in {"num", "inf"}))

\* C4: a row whose timestamp does not parse is left out of the output and raises
\* nothing (the only error of the cleaning steps is a Close that does not
\* convert); the rows whose timestamp parses are all kept, but those whose value
\* is missing.
C4_UnparseableTimestampsExcluded ==
    Cleaned =>
        /\ out.err \in {"none", "ValueError"}
        /\ out.err = "ValueError" <=> \E i \in DOMAIN raw.pairs : raw.pairs[i].Close.k = "text"
        /\ out.err = "none" =>
            /\ \A i \in DOMAIN out.rows : out.rows[i].ds.k = "ts"
            /\ SameRows(out.rows,
                        SelectSeq([i \in DOMAIN raw.pairs |-> AsPoint(raw.pairs[i])],
                                  LAMBDA r : r.ds.k = "ts" /\ r.y.k # "nan"))

\* C4's case: a frame with a timestamp that does not parse beside rows that are
\* kept has been cleaned.
C4_Witness ==
    /\ Cleaned
    /\ out.err = "none"
    /\ \E i \in DOMAIN raw.pairs : raw.pairs[i].Date.k = "text" /\ raw.pairs[i].Close.k = "num"
    /\ Len(out.rows) = Len(raw.pairs) - 1
    /\ Len(out.rows) >= 2

\* C5: every point of a returned series has a finite, non-negative value.
C5_FiniteNonNegative ==
    (Cleaned /\ out.err = "none")
        => \A i \in DOMAIN out.rows : out.rows[i].y.k = "num" /\ out.rows[i].y.v >= 0

\* C6: after a failed download the error is shown and the run has halted: nothing
\* else is rendered, no model fitted, no forecast made, the download was tried
\* once, nothing was cached, and no step of the script is left to take: only a
\* rerun by the user goes on.
C6_DownloadFailureHalts ==
    err = "DownloadError" =>
        /\ pc = "stopped"
        /\ shown = {"error"}
        /\ ~fitted
        /\ forecast = <<>>
        /\ table = <<>>
        /\ downloads = 1
        /\ cache[ticker] = Miss
        /\ ~ENABLED ScriptStep

\* C6's case: a download failed in a process that had fetched another ticker before.
C6_Witness ==
    /\ err = "DownloadError"
    /\ pc = "stopped"
    /\ runs >= 2
    /\ \E s \in Symbols : cache[s] # Miss

\* C7: once a ticker's series is cached the entry never changes or goes; a fetch
\* of that ticker returns the entry and downloads nothing; and whatever a fetch
\* returns was downloaded for the ticker asked for.
C7_CacheReuse ==
    [][/\ \A t \in Symbols :
            cache[t] # Miss =>
                /\ cache'[t] = cache[t]
                /\ cache[t].src = t
                /\ (pc = "fetch" /\ pc' # "fetch" /\ ticker = t)
                       => (pc' = "chart" /\ data' = cache[t] /\ downloads' = downloads)
       /\ (pc = "fetch" /\ pc' = "chart") => data'.src = ticker]_vars

\* C7's case: a later run for a ticker fetched before was served from the cache.
C7_Witness ==
    /\ pc = "chart"
    /\ downloads = 0
    /\ runs >= 2
    /\ data.rows # <<>>
    /\ data = cache[ticker]
    /\ data.src = ticker

C9_LabelStyleIrrelevant ==
    Cleaned =>
        /\ out \in CleanOutcomes(Frame(raw.pairs, ~raw.multi, NormSym))
        /\ out.err = "none" =>
            \A i \in DOMAIN out.rows :
                /\ DOMAIN out.rows[i] = {"ds", "y"}
                /\ \E j \in DOMAIN raw.pairs : AsPoint(raw.pairs[j]) = out.rows[i]

\* C9's case: a frame with composite labels has been cleaned into a series.
C9_Witness ==
    /\ Cleaned
    /\ raw.multi
    /\ out.err = "none"
    /\ Len(out.rows) >= 2

LastHistoryDate == Max({data.rows[i].ds.v : i \in DOMAIN data.rows})

\* C10: in a run that has reached the forecasting step the ticker is one of the
\* seven symbols, years is in 1..5, periods is years * 365 (365..1825), and the
\* displayed future-only table holds at most 30 rows, all of them forecast rows
\* dated after the last date of the history.
C10_ForecastInputs ==
    pc \in {"fit", "predict", "plot", "table", "components", "done", "crashed"} =>
        /\ ticker \in {"AAPL", "GOOG", "MSFT", "AMZN", "META", "NVDA", "TSLA"}
        /\ years \in 1..5
        /\ periods = years * 365
        /\ periods >= 365 /\ periods <= 1825
        /\ Len(table) <= 30
        /\ \A i \in DOMAIN table :
              /\ table[i] > LastHistoryDate
              /\ \E j \in DOMAIN forecast : forecast[j] = table[i]

\* C10's case: a five-year forecast whose future-only table is full.
C10_Witness ==
    /\ pc = "done"
    /\ years = 5
    /\ periods = 1825
    /\ Len(table) = 30

====
